---- MODULE Spec2Model ----
(***************************************************************************)
(* Model of the Ralph extension loop (src/unnamed/part_000): the loop      *)
(* controller runWorkflowLoop, the iteration executor                      *)
(* executeWorkflowIteration, the commit watcher pollForGitCommit /         *)
(* waitForGitCommitAndExecuteCommandW, and the start/stop commands.        *)
(*                                                                         *)
(* The extension host is single threaded: a command handler or the         *)
(* continuation of an await runs to its next await without interleaving.   *)
(* pc names the await the loop is suspended at; every loop action resumes  *)
(* from one await and runs to the next one.  The commands are dispatched   *)
(* only while the loop is suspended (AtSuspension).                        *)
(***************************************************************************)
EXTENDS Integers, Sequences, FiniteSets, TLC

\* ---------------------------------------------------------------- bounds
\* number of commits the repository can receive during a run
MaxCommits == 2
\* lateness of a timer, in units of the 500 ms sub-increment
MaxLateTicks == 1
\* number of rejected start() commands that are counted
MaxRejects == 1

\* ------------------------------------------------------ program constants
SleepMs == 500
pollInterval == 20000
maxWaitTime == 20 * 60 * 1000
SettleMs == 5000

\* ------------------------------------------------------------ value sets
NULL == -1
NoFile == "none"
Files == {"A", "B"}
Candidates == {<<>>, <<"A">>, <<"B">>, <<"A", "B">>, <<"B", "A">>}

VARIABLES
    \* module-level state of part_000 (lines 13-16) and the status bar
    isLooping, shouldStop, selectedFile, currentIterationCount, statusBar,
    \* the loop's position and its locals
    pc, iterationCount, files, selected, initialHead, watchClock,
    \* environment: repository HEAD and whether git can be queried
    head, repoOk,
    \* history of the run
    cleanupCount, stopAt, reportedCount, lastResult, exitReason, fetchCount,
    promptCount, activeLoops, activeIters, rejectedStarts, enterTried,
    \* how the previous session ended, which mechanisms of the fallback chain
    \* raised, which branch of selectFile resolved the file, the awaits the
    \* iteration went through, whether an error message was shown, and the
    \* await whose call raised into the catch block
    prevExit, enterRaised, resolvedBy, visited, errorShown, raisedAt,
    \* the fingerprint the watcher's poll returned in this iteration, and
    \* whether the previous session had resolved a prompt file
    lastFetch, prevSticky,
    \* the iterations of the session that returned true, and whether stop()
    \* was issued while idle since the last while test of the loop
    completedCount, idleStop

ctl == <<isLooping, shouldStop, selectedFile, currentIterationCount, statusBar>>
loc == <<pc, iterationCount, files, selected, initialHead, watchClock>>
env == <<head, repoOk>>
hist == <<cleanupCount, stopAt, reportedCount, lastResult, exitReason, fetchCount,
          promptCount, activeLoops, activeIters, rejectedStarts, enterTried,
          prevExit, enterRaised, resolvedBy, visited, errorShown, raisedAt,
          lastFetch, prevSticky, completedCount, idleStop>>
trace == <<prevExit, enterRaised, resolvedBy, visited, errorShown, raisedAt,
           lastFetch, prevSticky, completedCount>>
vars == <<ctl, loc, env, hist>>

\* ---------------------------------------------------------------- helpers
checkIfShouldStop == shouldStop

\* a detector without the null test
hasCommitOccurred_NullIsChange(initial, current) == current # initial

\* a detector that treats every poll as a commit
hasCommitOccurred_Always(initial, current) == TRUE

hasCommitOccurred(initial, current) == current # NULL /\ current # initial

\* the fingerprint provider: git rev-parse HEAD, null when it fails
getCurrentGitHead == IF repoOk THEN head ELSE NULL

\* the status bar shows the iteration text while looping and is hidden otherwise
updateStatusBar(looping, count, bar) ==
    IF looping THEN [shown |-> TRUE, iteration |-> count]
               ELSE [shown |-> FALSE, iteration |-> bar.iteration]

\* the awaits of the loop; "loopHead" is the synchronous while-test
Awaits == {"findFiles", "quickPick", "readFile", "focus", "copy", "composer",
           "paste", "enterDelay", "enter1", "enter2", "enter3", "baseline",
           "sleep", "fetch", "unresolved", "settle", "cmdW1", "cmdW2",
           "interDelay"}
WatchPcs == {"baseline", "sleep", "fetch", "unresolved", "settle", "cmdW1", "cmdW2"}
PollPcs == {"sleep", "fetch", "unresolved"}
AtSuspension == pc \in Awaits \cup {"idle"}

Init ==
    /\ isLooping = FALSE
    /\ shouldStop = FALSE
    /\ selectedFile = NoFile
    /\ currentIterationCount = 0
    /\ statusBar = [shown |-> FALSE, iteration |-> 0]
    /\ pc = "idle"
    /\ iterationCount = 0
    /\ files = <<>>
    /\ selected = NoFile
    /\ initialHead = NULL
    /\ watchClock = 0
    /\ head = 0
    /\ repoOk \in BOOLEAN
    /\ cleanupCount = 0
    /\ stopAt = "none"
    /\ reportedCount = -1
    /\ lastResult = "none"
    /\ exitReason = "none"
    /\ fetchCount = 0
    /\ promptCount = 0
    /\ activeLoops = 0
    /\ activeIters = 0
    /\ rejectedStarts = 0
    /\ enterTried = {}
    /\ prevExit = "none"
    /\ enterRaised = {}
    /\ resolvedBy = "none"
    /\ visited = {}
    /\ errorShown = FALSE
    /\ raisedAt = "none"
    /\ lastFetch = NULL
    /\ prevSticky = FALSE
    /\ completedCount = 0
    /\ idleStop = FALSE

\* ------------------------------------------------------------ loop exit
\* resetLoopState that forgets to clear the running flag
resetLoopState_KeepsRunning ==
    /\ isLooping' = isLooping
    /\ shouldStop' = FALSE
    /\ currentIterationCount' = 0
    /\ selectedFile' = NoFile
    /\ statusBar' = updateStatusBar(isLooping, 0, statusBar)

\* resetLoopState that leaves the cancellation flag set
resetLoopState_KeepsStop ==
    /\ isLooping' = FALSE
    /\ shouldStop' = shouldStop
    /\ currentIterationCount' = 0
    /\ selectedFile' = NoFile
    /\ statusBar' = updateStatusBar(FALSE, 0, statusBar)

\* resetLoopState that leaves the sticky file in place
resetLoopState_KeepsSticky ==
    /\ isLooping' = FALSE
    /\ shouldStop' = FALSE
    /\ currentIterationCount' = 0
    /\ selectedFile' = selectedFile
    /\ statusBar' = updateStatusBar(FALSE, 0, statusBar)

resetLoopState ==
    /\ isLooping' = FALSE
    /\ shouldStop' = FALSE
    /\ currentIterationCount' = 0
    /\ selectedFile' = NoFile
    /\ statusBar' = updateStatusBar(FALSE, 0, statusBar)

\* the finally block of runWorkflowLoop: reset, then report the count
LoopExit(reason) ==
    /\ resetLoopState
    /\ reportedCount' = iterationCount
    /\ exitReason' = reason
    /\ activeLoops' = activeLoops - 1
    /\ pc' = "idle"

\* an error message shown by the catch block only
ErrorSurfaced_CatchOnly(tag) == tag = "Failed"

\* the return sites that show an error message (lines 376 and 420)
ErrorSurfaced(tag) == tag \in {"NoCandidates", "Failed"}

\* the break test that looks at the cancellation flag only
LoopBreaks_IgnoresResult(result) == shouldStop

\* the test after an iteration returned (line 482)
LoopBreaks(result) == shouldStop \/ ~result

\* executeWorkflowIteration returns result to runWorkflowLoop
Return(result, tag) ==
    /\ lastResult' = tag
    /\ completedCount' = IF result THEN completedCount + 1 ELSE completedCount
    /\ errorShown' = (errorShown \/ ErrorSurfaced(tag))
    /\ UNCHANGED visited
    /\ activeIters' = activeIters - 1
    /\ IF LoopBreaks(result)
       THEN LoopExit(IF shouldStop THEN "Cancelled" ELSE tag)
       ELSE /\ pc' = "interDelay"
            /\ UNCHANGED <<ctl, reportedCount, exitReason, activeLoops>>

\* a step of the iteration that clears the cancellation flag as it goes on
Goto_ClearsStop(next, sel) ==
    /\ pc' = next
    /\ selectedFile' = sel
    /\ visited' = visited \cup {next}
    /\ shouldStop' = FALSE
    /\ UNCHANGED <<isLooping, currentIterationCount, statusBar,
                   reportedCount, lastResult, exitReason, activeLoops, activeIters,
                   errorShown, completedCount>>

\* the loop moves on to its next await, with sel as the sticky file
Goto(next, sel) ==
    /\ pc' = next
    /\ selectedFile' = sel
    /\ visited' = visited \cup {next}
    /\ UNCHANGED <<isLooping, shouldStop, currentIterationCount, statusBar,
                   reportedCount, lastResult, exitReason, activeLoops, activeIters,
                   errorShown, completedCount>>

\* a checkpoint that does not read the cancellation flag
Checkpoint_Skipped(next, sel) == Goto(next, sel)

\* a cancellation checkpoint of executeWorkflowIteration
Checkpoint(next, sel) ==
    IF checkIfShouldStop THEN Return(FALSE, "Cancelled") ELSE Goto(next, sel)

\* ------------------------------------------------------------- commands
\* the start command without its running guard
StartAccepted_Always == TRUE

\* the start command guarded by the wrong flag
StartAccepted_WrongFlag == ~shouldStop

StartAccepted == ~isLooping

\* ralph-extension.typeHelloWorld, accepted: runWorkflowLoop lines 465-471
Start ==
    /\ AtSuspension
    /\ StartAccepted
    /\ shouldStop' = FALSE
    /\ isLooping' = TRUE
    /\ currentIterationCount' = 0
    /\ statusBar' = updateStatusBar(TRUE, 0, statusBar)
    /\ iterationCount' = 0
    /\ pc' = "loopHead"
    /\ activeLoops' = activeLoops + 1
    \* fresh locals, and the history of the new session starts empty
    /\ files' = <<>>
    /\ selected' = NoFile
    /\ initialHead' = NULL
    /\ watchClock' = 0
    /\ stopAt' = "none"
    /\ promptCount' = 0
    /\ cleanupCount' = 0
    /\ fetchCount' = 0
    /\ reportedCount' = -1
    /\ lastResult' = "none"
    /\ exitReason' = "none"
    /\ rejectedStarts' = 0
    /\ enterTried' = {}
    /\ prevExit' = IF exitReason \in {"none", "Cancelled"} THEN exitReason
                    ELSE "Stopped"
    /\ enterRaised' = {}
    /\ resolvedBy' = "none"
    /\ visited' = {}
    /\ errorShown' = FALSE
    /\ raisedAt' = "none"
    /\ lastFetch' = NULL
    /\ prevSticky' = (selected # NoFile)
    /\ completedCount' = 0
    /\ UNCHANGED <<selectedFile, env, activeIters, idleStop>>

\* ralph-extension.typeHelloWorld while a loop is running: warning only
StartRejected ==
    /\ AtSuspension
    /\ ~StartAccepted
    /\ rejectedStarts < MaxRejects
    /\ rejectedStarts' = rejectedStarts + 1
    /\ UNCHANGED <<ctl, loc, env, cleanupCount, stopAt, reportedCount, lastResult,
                   exitReason, fetchCount, promptCount, activeLoops, activeIters,
                   enterTried, trace, idleStop>>

\* a stop command that sets the flag whether or not a loop is running
Stop_Unguarded ==
    /\ AtSuspension
    /\ shouldStop' = TRUE
    /\ stopAt' = IF shouldStop THEN stopAt ELSE pc
    /\ idleStop' = (idleStop \/ ~isLooping)
    /\ UNCHANGED <<isLooping, selectedFile, currentIterationCount, statusBar, loc,
                   env, cleanupCount, reportedCount, lastResult, exitReason,
                   fetchCount, promptCount, activeLoops, activeIters,
                   rejectedStarts, enterTried, trace>>

\* ralph-extension.stopLoop
Stop ==
    /\ AtSuspension
    /\ IF isLooping
       THEN /\ shouldStop' = TRUE
            /\ stopAt' = IF shouldStop THEN stopAt ELSE pc
            /\ UNCHANGED idleStop
       ELSE /\ idleStop' = TRUE
            /\ UNCHANGED <<shouldStop, stopAt>>
    /\ UNCHANGED <<isLooping, selectedFile, currentIterationCount, statusBar, loc,
                   env, cleanupCount, reportedCount, lastResult, exitReason,
                   fetchCount, promptCount, activeLoops, activeIters,
                   rejectedStarts, enterTried, trace>>

\* ---------------------------------------------------------- environment
Commit ==
    /\ head < MaxCommits
    /\ head' = head + 1
    /\ UNCHANGED <<ctl, loc, repoOk, hist>>

RepoToggle ==
    /\ repoOk' = ~repoOk
    /\ UNCHANGED <<ctl, loc, head, hist>>

\* ------------------------------------------------------ runWorkflowLoop
\* a loop body that does not publish its local count (line 476 missing)
LoopHead_StaleCount ==
    /\ pc = "loopHead"
    /\ IF shouldStop
       THEN /\ LoopExit("Cancelled")
            /\ UNCHANGED <<iterationCount, lastResult, activeIters, cleanupCount,
                           fetchCount, enterTried, enterRaised, resolvedBy,
                           visited, errorShown, raisedAt, lastFetch>>
       ELSE /\ iterationCount' = iterationCount + 1
            /\ currentIterationCount' = currentIterationCount
            /\ statusBar' = updateStatusBar(isLooping, currentIterationCount,
                                           statusBar)
            /\ activeIters' = activeIters + 1
            /\ cleanupCount' = 0
            /\ fetchCount' = 0
            /\ enterTried' = {}
            /\ enterRaised' = {}
            /\ resolvedBy' = "none"
            /\ visited' = {"findFiles"}
            /\ raisedAt' = "none"
            /\ lastFetch' = NULL
            /\ pc' = "findFiles"
            /\ UNCHANGED <<isLooping, shouldStop, selectedFile, reportedCount,
                           lastResult, exitReason, activeLoops, errorShown>>
    /\ idleStop' = FALSE
    /\ UNCHANGED <<files, selected, initialHead, watchClock, env, stopAt,
                   promptCount, rejectedStarts, prevExit, prevSticky,
                   completedCount>>

\* a loop body that does not refresh the status bar (line 477 missing)
LoopHead_NoStatusUpdate ==
    /\ pc = "loopHead"
    /\ IF shouldStop
       THEN /\ LoopExit("Cancelled")
            /\ UNCHANGED <<iterationCount, lastResult, activeIters, cleanupCount,
                           fetchCount, enterTried, enterRaised, resolvedBy,
                           visited, errorShown, raisedAt, lastFetch>>
       ELSE /\ iterationCount' = iterationCount + 1
            /\ currentIterationCount' = iterationCount + 1
            /\ statusBar' = statusBar
            /\ activeIters' = activeIters + 1
            /\ cleanupCount' = 0
            /\ fetchCount' = 0
            /\ enterTried' = {}
            /\ enterRaised' = {}
            /\ resolvedBy' = "none"
            /\ visited' = {"findFiles"}
            /\ raisedAt' = "none"
            /\ lastFetch' = NULL
            /\ pc' = "findFiles"
            /\ UNCHANGED <<isLooping, shouldStop, selectedFile, reportedCount,
                           lastResult, exitReason, activeLoops, errorShown>>
    /\ idleStop' = FALSE
    /\ UNCHANGED <<files, selected, initialHead, watchClock, env, stopAt,
                   promptCount, rejectedStarts, prevExit, prevSticky,
                   completedCount>>

\* a loop that enters its body without testing the flag (while (true))
LoopHead_NoWhileTest ==
    /\ pc = "loopHead"
    /\ IF FALSE
       THEN /\ LoopExit("Cancelled")
            /\ UNCHANGED <<iterationCount, lastResult, activeIters, cleanupCount,
                           fetchCount, enterTried, enterRaised, resolvedBy,
                           visited, errorShown, raisedAt, lastFetch>>
       ELSE /\ iterationCount' = iterationCount + 1
            /\ currentIterationCount' = iterationCount + 1
            /\ statusBar' = updateStatusBar(isLooping, iterationCount + 1, statusBar)
            /\ activeIters' = activeIters + 1
            /\ cleanupCount' = 0
            /\ fetchCount' = 0
            /\ enterTried' = {}
            /\ enterRaised' = {}
            /\ resolvedBy' = "none"
            /\ visited' = {"findFiles"}
            /\ raisedAt' = "none"
            /\ lastFetch' = NULL
            /\ pc' = "findFiles"
            /\ UNCHANGED <<isLooping, shouldStop, selectedFile, reportedCount,
                           lastResult, exitReason, activeLoops, errorShown>>
    /\ idleStop' = FALSE
    /\ UNCHANGED <<files, selected, initialHead, watchClock, env, stopAt,
                   promptCount, rejectedStarts, prevExit, prevSticky,
                   completedCount>>

\* the while test and the loop body up to the first await of the iteration
LoopHead ==
    /\ pc = "loopHead"
    /\ IF shouldStop
       THEN /\ LoopExit("Cancelled")
            /\ UNCHANGED <<iterationCount, lastResult, activeIters, cleanupCount,
                           fetchCount, enterTried, enterRaised, resolvedBy,
                           visited, errorShown, raisedAt, lastFetch>>
       ELSE /\ iterationCount' = iterationCount + 1
            /\ currentIterationCount' = iterationCount + 1
            /\ statusBar' = updateStatusBar(isLooping, iterationCount + 1, statusBar)
            /\ activeIters' = activeIters + 1
            /\ cleanupCount' = 0
            /\ fetchCount' = 0
            /\ enterTried' = {}
            /\ enterRaised' = {}
            /\ resolvedBy' = "none"
            /\ visited' = {"findFiles"}
            /\ raisedAt' = "none"
            /\ lastFetch' = NULL
            /\ pc' = "findFiles"
            /\ UNCHANGED <<isLooping, shouldStop, selectedFile, reportedCount,
                           lastResult, exitReason, activeLoops, errorShown>>
    /\ idleStop' = FALSE
    /\ UNCHANGED <<files, selected, initialHead, watchClock, env, stopAt,
                   promptCount, rejectedStarts, prevExit, prevSticky,
                   completedCount>>

\* the 1 second delay between iterations has elapsed
InterDelayDone ==
    /\ pc = "interDelay"
    /\ pc' = "loopHead"
    /\ UNCHANGED <<ctl, iterationCount, files, selected, initialHead, watchClock,
                   env, hist>>

\* ---------------------------------------------- executeWorkflowIteration
\* what an iteration step leaves alone besides what Return/Goto decide
IterFrame == <<iterationCount, initialHead, watchClock, env, cleanupCount, stopAt,
               fetchCount, rejectedStarts, prevExit, lastFetch, prevSticky,
               idleStop>>

\* a lookup of the sticky file by position instead of by path
Contains_FirstOnly(fs, f) == fs[1] = f

Contains(fs, f) == \E i \in 1..Len(fs) : fs[i] = f

\* a fallback that returns the first candidate but keeps the old sticky file
FallbackSticky_NotUpdated(fs) == selectedFile

\* selectFile, sticky file missing: the file that becomes the sticky one
FallbackSticky(fs) == fs[1]

\* findRalphPromptFiles resolved; selectFile runs up to its prompt
FindFilesDone ==
    /\ pc = "findFiles"
    /\ \E fs \in Candidates :
         /\ files' = fs
         /\ IF Len(fs) = 0
            THEN /\ Return(FALSE, "NoCandidates")
                 /\ UNCHANGED <<selected, promptCount, resolvedBy>>
            ELSE IF selectedFile # NoFile
            THEN IF Contains(fs, selectedFile)
                 THEN /\ Checkpoint("readFile", selectedFile)
                      /\ selected' = selectedFile
                      /\ resolvedBy' = "sticky"
                      /\ UNCHANGED promptCount
                 ELSE /\ Checkpoint("readFile", FallbackSticky(fs))
                      /\ selected' = fs[1]
                      /\ resolvedBy' = "fallback"
                      /\ UNCHANGED promptCount
            ELSE /\ Goto("quickPick", selectedFile)
                 /\ promptCount' = promptCount + 1
                 /\ resolvedBy' = "prompt"
                 /\ UNCHANGED selected
    /\ UNCHANGED <<IterFrame, enterTried, enterRaised, raisedAt>>

\* a quick pick whose cancellation is not tested: the iteration goes on
QuickPickDone_IgnoresCancel ==
    /\ pc = "quickPick"
    /\ \E choice \in {files[i] : i \in 1..Len(files)} \cup {NoFile} :
         IF choice = NoFile
         THEN /\ Checkpoint("readFile", selectedFile)
              /\ UNCHANGED selected
         ELSE /\ Checkpoint("readFile", choice)
              /\ selected' = choice
    /\ files' = <<>>
    /\ UNCHANGED <<IterFrame, promptCount, enterTried, enterRaised, resolvedBy,
                   raisedAt>>

\* a quick pick whose choice is not remembered (line 260 missing)
QuickPickDone_NoSticky ==
    /\ pc = "quickPick"
    /\ \E choice \in {files[i] : i \in 1..Len(files)} \cup {NoFile} :
         IF choice = NoFile
         THEN /\ Return(FALSE, "PromptCancelled")
              /\ UNCHANGED selected
         ELSE /\ Checkpoint("readFile", selectedFile)
              /\ selected' = choice
    /\ files' = <<>>
    /\ UNCHANGED <<IterFrame, promptCount, enterTried, enterRaised, resolvedBy,
                   raisedAt>>

\* showQuickPick resolved with an item or with nothing
QuickPickDone ==
    /\ pc = "quickPick"
    /\ \E choice \in {files[i] : i \in 1..Len(files)} \cup {NoFile} :
         IF choice = NoFile
         THEN /\ Return(FALSE, "PromptCancelled")
              /\ UNCHANGED selected
         ELSE /\ Checkpoint("readFile", choice)
              /\ selected' = choice
    /\ files' = <<>>
    /\ UNCHANGED <<IterFrame, promptCount, enterTried, enterRaised, resolvedBy,
                   raisedAt>>

\* a delivery step whose error is swallowed: the iteration goes on
Step_SwallowsError(at, after) ==
    /\ pc = at
    /\ \E ok \in BOOLEAN :
         /\ after
         /\ raisedAt' = IF ok THEN raisedAt ELSE at
    /\ files' = <<>>
    /\ UNCHANGED <<IterFrame, selected, promptCount, enterTried,
                   enterRaised, resolvedBy>>

\* an external call of the delivery steps resolved (ok) or raised:
\* on success the iteration goes on through after, on a raise the catch
\* block of executeWorkflowIteration returns false
Step(at, after) ==
    /\ pc = at
    /\ \E ok \in BOOLEAN :
         IF ok THEN /\ after
                    /\ UNCHANGED raisedAt
               ELSE /\ Return(FALSE, "Failed")
                    /\ raisedAt' = at
    \* the candidate list is not used after selectFile
    /\ files' = <<>>
    /\ UNCHANGED <<IterFrame, selected, promptCount, enterTried,
                   enterRaised, resolvedBy>>

ReadFileDone == Step("readFile", Checkpoint("focus", selectedFile))
FocusDone == Step("focus", Goto("copy", selectedFile))
CopyDone == Step("copy", Checkpoint("composer", selectedFile))
ComposerDone == Step("composer", Goto("paste", selectedFile))
PasteDone == Step("paste", Checkpoint("enterDelay", selectedFile))

\* ------------------------------------------------------ simulateEnterKey
EnterDelayDone ==
    /\ pc = "enterDelay"
    /\ Goto("enter1", selectedFile)
    /\ enterTried' = {1}
    /\ UNCHANGED <<IterFrame, files, selected, promptCount, enterRaised,
                   resolvedBy, raisedAt>>

\* a fallback chain that goes on to the next mechanism after a success
EnterDone_NoShortCircuit(k) ==
    /\ pc = IF k = 1 THEN "enter1" ELSE IF k = 2 THEN "enter2" ELSE "enter3"
    /\ \E ok \in BOOLEAN :
         /\ enterRaised' = IF ok THEN enterRaised ELSE enterRaised \cup {k}
         /\ IF k = 3
            THEN /\ Checkpoint("baseline", selectedFile)
                 /\ UNCHANGED enterTried
            ELSE /\ Goto(IF k = 1 THEN "enter2" ELSE "enter3", selectedFile)
                 /\ enterTried' = enterTried \cup {k + 1}
    /\ UNCHANGED <<IterFrame, files, selected, promptCount, resolvedBy, raisedAt>>

\* a fallback chain whose last raise reaches the iteration's catch block
EnterDone_LastRaiseFails(k) ==
    /\ pc = IF k = 1 THEN "enter1" ELSE IF k = 2 THEN "enter2" ELSE "enter3"
    /\ \E ok \in BOOLEAN :
         /\ enterRaised' = IF ok THEN enterRaised ELSE enterRaised \cup {k}
         /\ IF ok
            THEN /\ Checkpoint("baseline", selectedFile)
                 /\ UNCHANGED enterTried
            ELSE IF k = 3
            THEN /\ Return(FALSE, "Failed")
                 /\ UNCHANGED enterTried
            ELSE /\ Goto(IF k = 1 THEN "enter2" ELSE "enter3", selectedFile)
                 /\ enterTried' = enterTried \cup {k + 1}
    /\ UNCHANGED <<IterFrame, files, selected, promptCount, resolvedBy, raisedAt>>

\* mechanism k resolved or raised; a raise of the last one is only logged
EnterDone(k) ==
    /\ pc = IF k = 1 THEN "enter1" ELSE IF k = 2 THEN "enter2" ELSE "enter3"
    /\ \E ok \in BOOLEAN :
         /\ enterRaised' = IF ok THEN enterRaised ELSE enterRaised \cup {k}
         /\ IF ok \/ k = 3
            THEN /\ Checkpoint("baseline", selectedFile)
                 /\ UNCHANGED enterTried
            ELSE /\ Goto(IF k = 1 THEN "enter2" ELSE "enter3", selectedFile)
                 /\ enterTried' = enterTried \cup {k + 1}
    /\ UNCHANGED <<IterFrame, files, selected, promptCount, resolvedBy, raisedAt>>

Enter1Done == EnterDone(1)
Enter2Done == EnterDone(2)
Enter3Done == EnterDone(3)

\* ------------------------------------ waitForGitCommitAndExecuteCommandW
WatchFrame == <<iterationCount, files, selected, env, stopAt, promptCount,
                rejectedStarts, enterTried, prevExit, enterRaised, resolvedBy,
                prevSticky, idleStop>>

\* a watch step that keeps the baseline of an earlier iteration
BaselineDone_CachedBaseline ==
    /\ pc = "baseline"
    /\ IF getCurrentGitHead = NULL
       THEN /\ Return(FALSE, "NoBaseline")
            /\ UNCHANGED <<initialHead, watchClock>>
       ELSE /\ Goto("sleep", selectedFile)
            /\ initialHead' = IF initialHead # NULL THEN initialHead
                               ELSE getCurrentGitHead
            /\ watchClock' = 0
    /\ UNCHANGED <<WatchFrame, cleanupCount, fetchCount, raisedAt, lastFetch>>

\* a watch step that starts polling whatever the baseline is
BaselineDone_NoNullCheck ==
    /\ pc = "baseline"
    /\ Goto("sleep", selectedFile)
    /\ initialHead' = getCurrentGitHead
    /\ watchClock' = 0
    /\ UNCHANGED <<WatchFrame, cleanupCount, fetchCount, raisedAt, lastFetch>>

\* getInitialGitHead resolved
BaselineDone ==
    /\ pc = "baseline"
    /\ IF getCurrentGitHead = NULL
       THEN /\ Return(FALSE, "NoBaseline")
            /\ UNCHANGED <<initialHead, watchClock>>
       ELSE /\ Goto("sleep", selectedFile)
            /\ initialHead' = getCurrentGitHead
            /\ watchClock' = 0
    /\ UNCHANGED <<WatchFrame, cleanupCount, fetchCount, raisedAt, lastFetch>>

\* a sleep loop that does not test the flag after its sub-increments
StopSeenInSleep_Skipped == FALSE

\* the three cancellation checks of the watcher
StopSeenInSleep == checkIfShouldStop
StopSeenAfterDetection == checkIfShouldStop
\* the watcher without the check after the settle delay
StopSeenAfterSettle_Skipped == FALSE

StopSeenAfterSettle == checkIfShouldStop

\* a sleep loop that runs until maxWaitTime instead of pollInterval
IntervalElapsed_UsesMaxWait(elapsed) == elapsed > maxWaitTime

\* the sleep loop's exit test
IntervalElapsed(elapsed) == elapsed > pollInterval

\* pollForGitCommit: a 500 ms sub-increment has elapsed
SleepDone ==
    /\ pc = "sleep"
    /\ \E late \in 0..MaxLateTicks :
         LET now == watchClock + SleepMs * (1 + late) IN
         /\ watchClock' = now
         /\ IF StopSeenInSleep
            THEN Return(FALSE, "Cancelled")
            ELSE IF IntervalElapsed(now)
                 THEN Goto("fetch", selectedFile)
                 ELSE Goto("sleep", selectedFile)
    /\ UNCHANGED <<WatchFrame, initialHead, cleanupCount, fetchCount, raisedAt,
                   lastFetch>>

\* pollForGitCommit: the single getCurrentGitHead after the sleep loop
\* resolved.  Without a commit the promise is left unresolved.
FetchDone ==
    /\ pc = "fetch"
    /\ fetchCount' = fetchCount + 1
    /\ lastFetch' = getCurrentGitHead
    /\ IF hasCommitOccurred(initialHead, getCurrentGitHead)
       THEN IF StopSeenAfterDetection
            THEN Return(FALSE, "Cancelled")
            ELSE Goto("settle", selectedFile)
       ELSE Goto("unresolved", selectedFile)
    /\ UNCHANGED <<WatchFrame, initialHead, watchClock, cleanupCount, raisedAt>>

\* the 5 second settle delay has elapsed; executeCommandW is started
SettleDone ==
    /\ pc = "settle"
    /\ IF StopSeenAfterSettle
       THEN /\ Return(FALSE, "Cancelled")
            /\ UNCHANGED cleanupCount
       ELSE /\ Goto("cmdW1", selectedFile)
            /\ cleanupCount' = cleanupCount + 1
    /\ UNCHANGED <<WatchFrame, initialHead, watchClock, fetchCount, raisedAt,
                   lastFetch>>

\* executeCommandW: the first keystroke resolved or raised
CmdW1Done ==
    /\ pc = "cmdW1"
    /\ \E ok \in BOOLEAN :
         IF ok THEN /\ Goto("cmdW2", selectedFile)
                    /\ UNCHANGED raisedAt
               ELSE /\ Return(FALSE, "Failed")
                    /\ raisedAt' = "cmdW1"
    /\ UNCHANGED <<WatchFrame, initialHead, watchClock, cleanupCount, fetchCount,
                   lastFetch>>

\* a cleanup whose error is swallowed: the watch step still returns true
CmdW2Done_SwallowsError ==
    /\ pc = "cmdW2"
    /\ \E ok \in BOOLEAN :
         /\ Return(TRUE, "Completed")
         /\ raisedAt' = IF ok THEN raisedAt ELSE "cmdW2"
    /\ UNCHANGED <<WatchFrame, initialHead, watchClock, cleanupCount, fetchCount,
                   lastFetch>>

\* executeCommandW: the second keystroke resolved or raised
CmdW2Done ==
    /\ pc = "cmdW2"
    /\ \E ok \in BOOLEAN :
         IF ok THEN /\ Return(TRUE, "Completed")
                    /\ UNCHANGED raisedAt
               ELSE /\ Return(FALSE, "Failed")
                    /\ raisedAt' = "cmdW2"
    /\ UNCHANGED <<WatchFrame, initialHead, watchClock, cleanupCount, fetchCount,
                   lastFetch>>

\* ------------------------------------------------------------------ spec
LoopStep ==
    \/ LoopHead
    \/ InterDelayDone
    \/ FindFilesDone
    \/ QuickPickDone
    \/ ReadFileDone
    \/ FocusDone
    \/ CopyDone
    \/ ComposerDone
    \/ PasteDone
    \/ EnterDelayDone
    \/ Enter1Done
    \/ Enter2Done
    \/ Enter3Done
    \/ BaselineDone
    \/ SleepDone
    \/ FetchDone
    \/ SettleDone
    \/ CmdW1Done
    \/ CmdW2Done

Next ==
    \/ Start
    \/ StartRejected
    \/ Stop
    \/ Commit
    \/ RepoToggle
    \/ LoopStep

Spec == Init /\ [][Next]_vars

\* timers fire and in-flight external calls complete
FairSpec == Spec /\ WF_vars(LoopStep)

TypeOK ==
    /\ isLooping \in BOOLEAN
    /\ shouldStop \in BOOLEAN
    /\ selectedFile \in Files \cup {NoFile}
    /\ currentIterationCount \in 0..(MaxCommits + 1)
    /\ pc \in Awaits \cup {"idle", "loopHead"}
    /\ iterationCount \in 0..(MaxCommits + 1)
    /\ files \in Candidates
    /\ head \in 0..MaxCommits
    /\ initialHead \in {NULL} \cup 0..MaxCommits
    /\ lastFetch \in {NULL} \cup 0..MaxCommits
    /\ prevSticky \in BOOLEAN
    /\ completedCount \in 0..MaxCommits
    /\ idleStop \in BOOLEAN

\* ================================================================ claims

\* C1: the cleanup action (executeCommandW) is never started after a stop()
\* request of the current session: every step that starts it is taken with
\* the cancellation flag false and no stop accepted in this session.
C1_NoCleanupAfterStop ==
    [][cleanupCount' > cleanupCount => (~shouldStop /\ stopAt = "none")]_vars

\* stop arrived during the settle delay and the loop ended without cleanup
C1_Witness ==
    /\ stopAt = "settle"
    /\ pc = "idle"
    /\ exitReason = "Cancelled"
    /\ cleanupCount = 0

\* C2: the session is Running (isLooping) exactly when an accepted start()
\* has a loop that did not yet pass its terminal exit (resetLoopState).
C2_RunningIffLoopActive == isLooping <=> (activeLoops > 0 /\ pc # "idle")

\* a running loop with a stop pending at one of its suspension points
C2_Witness ==
    /\ isLooping
    /\ shouldStop
    /\ activeLoops = 1
    /\ pc \in PollPcs

\* C3: a watch that is not cancelled and whose provider keeps returning the
\* baseline eventually returns NoSignal.
C3_NoSignalAfterMaxWait ==
    [](  (pc \in PollPcs /\ ~shouldStop)
      => <>(lastResult = "NoSignal" \/ shouldStop
            \/ getCurrentGitHead # initialHead))

\* C4: a watch that is not cancelled and whose provider returns a non-null
\* fingerprint different from the baseline, after any number of polls,
\* eventually returns Completed with the cleanup action invoked once.
C4_CompletedAfterDivergence ==
    [](  (pc \in PollPcs /\ ~shouldStop
          /\ hasCommitOccurred(initialHead, getCurrentGitHead))
      => <>(\/ (pc = "interDelay" /\ lastResult = "Completed" /\ cleanupCount = 1)
            \/ shouldStop
            \/ ~hasCommitOccurred(initialHead, getCurrentGitHead)
            \/ (pc = "idle" /\ exitReason = "Failed")))

\* C5: a stop requested while the watcher polls, before any divergent
\* fingerprint was returned, makes the watcher return Cancelled, and the
\* cleanup action is not invoked.
C5_CancelledBeforeDivergence ==
    [](  (pc \in PollPcs /\ shouldStop)
      => <>(pc = "idle" /\ exitReason = "Cancelled" /\ cleanupCount = 0))

\* C6: after every accepted stop() the loop eventually exits (isLooping
\* becomes false), timers and external calls being scheduled fairly.
C6_StopEventuallyExits == (isLooping /\ shouldStop) ~> ~isLooping

\* C7: every invocation of the commit watcher eventually returns.
C7_WatcherReturns == (pc \in WatchPcs) ~> (pc \notin WatchPcs)

\* C8: a stop requested during the commit-watch poll of iteration k ends the
\* loop as cancelled with k reported as the final count and the session
\* reset to Idle.
C8_StopMidPollReportsCount ==
    [](  (shouldStop /\ stopAt \in PollPcs)
      => <>(/\ pc = "idle"
            /\ ~isLooping
            /\ currentIterationCount = 0
            /\ exitReason = "Cancelled"
            /\ reportedCount = iterationCount))

\* C9: a start() while Running starts no second loop and leaves isLooping,
\* the cancellation flag, the iteration count and the sticky file unchanged.
C9_StartWhileRunningRejected ==
    [][ /\ isLooping => activeLoops' <= activeLoops
        /\ rejectedStarts' > rejectedStarts =>
             /\ isLooping
             /\ UNCHANGED <<isLooping, shouldStop, currentIterationCount,
                            selectedFile, iterationCount, pc>> ]_vars

\* a start was rejected during an iteration that has a sticky file
C9_Witness ==
    /\ rejectedStarts = 1
    /\ isLooping
    /\ currentIterationCount >= 1
    /\ selectedFile # NoFile

\* C10: at most one loop and one iteration executor pass are in progress,
\* and an iteration begins only when the previous one has returned.
C10_NoOverlappingIterations ==
    /\ [](activeLoops <= 1 /\ activeIters <= 1 /\ activeIters <= activeLoops)
    /\ [][iterationCount' = iterationCount + 1 => activeIters = 0]_vars

\* the second iteration is in progress and a start arrived meanwhile
C10_Witness ==
    /\ iterationCount = 2
    /\ activeIters = 1
    /\ activeLoops = 1
    /\ rejectedStarts = 1

\* C11: iteration k+1 is started only when iteration k returned Completed
\* and no cancellation is pending; every other outcome of an iteration
\* ends the loop.
C11_ContinueOnlyOnCompleted ==
    /\ [](lastResult \notin {"none", "Completed"} => (pc = "idle" /\ ~isLooping))
    /\ [][(iterationCount' = iterationCount + 1 /\ iterationCount >= 1)
            => (lastResult = "Completed" /\ ~shouldStop)]_vars

\* the second iteration runs after a Completed first one
C11_Witness ==
    /\ iterationCount = 2
    /\ lastResult = "Completed"
    /\ activeIters = 1
    /\ pc = "findFiles"

\* C12: whatever ends the loop, the exit runs resetLoopState: the session
\* is Idle with the flag false, the count 0, no sticky file and the status
\* bar hidden, the final count has been reported, and the session is not
\* left Running after an error.
C12_ExitAlwaysResets ==
    /\ pc = "idle" =>
         /\ ~isLooping
         /\ ~shouldStop
         /\ currentIterationCount = 0
         /\ selectedFile = NoFile
         /\ ~statusBar.shown
    /\ (pc = "idle" /\ exitReason # "none") => reportedCount = iterationCount
    /\ raisedAt # "none" => (pc = "idle" /\ ~isLooping)

\* the loop ended on a raised error in its second iteration
C12_Witness ==
    /\ pc = "idle"
    /\ exitReason = "Failed"
    /\ raisedAt = "readFile"
    /\ reportedCount = 2

\* C13: right after an accepted start() the session is Running with count
\* 0, the flag false and no sticky file, also after a cancelled or failed
\* session; the first iteration never resolves its file from a sticky one.
C13_StartStateFresh ==
    /\ (pc = "loopHead" /\ iterationCount = 0) =>
         /\ isLooping
         /\ ~shouldStop
         /\ currentIterationCount = 0
         /\ selectedFile = NoFile
         /\ statusBar = [shown |-> TRUE, iteration |-> 0]
    /\ (iterationCount = 1 /\ resolvedBy # "none") => resolvedBy = "prompt"

\* a start accepted after a session that was cancelled
C13_Witness ==
    /\ pc = "loopHead"
    /\ iterationCount = 0
    /\ prevExit = "Cancelled"
    /\ isLooping

\* C14: the fallback chain tries its mechanisms in order, mechanism k + 1
\* exactly when mechanism k raised; simulateEnterKey never raises: when the
\* chain is over the iteration has gone on to the watch step, unless a stop
\* was seen at the checkpoint after it.
C14_FallbackInOrder ==
    /\ enterRaised \subseteq enterTried
    /\ enterTried # {} => 1 \in enterTried
    /\ 2 \in enterTried <=> 1 \in enterRaised
    /\ 3 \in enterTried <=> 2 \in enterRaised
    /\ raisedAt \notin {"enterDelay", "enter1", "enter2", "enter3"}
    /\ (enterTried # {} /\ pc \notin {"enter1", "enter2", "enter3"}) =>
         \/ "baseline" \in visited
         \/ (pc = "idle" /\ lastResult = "Cancelled" /\ cleanupCount = 0)

\* mechanism 1 raised, mechanism 2 succeeded, the watch step has begun
C14_Witness ==
    /\ enterTried = {1, 2}
    /\ enterRaised = {1}
    /\ pc = "baseline"

\* C15: when the candidates contain the sticky file, at any position,
\* selectFile returns it without prompting and leaves the sticky reference
\* unchanged, in every iteration.
C15_StickyReused ==
    [][(/\ pc = "findFiles"
        /\ pc' # "findFiles"
        /\ selectedFile # NoFile
        /\ \E i \in 1..Len(files') : files'[i] = selectedFile)
       => /\ selected' = selectedFile
          /\ promptCount' = promptCount
          /\ pc' # "quickPick"
          /\ pc' = "readFile" => selectedFile' = selectedFile]_vars

\* third iteration, the sticky file found at the second position
C15_Witness ==
    /\ iterationCount = 3
    /\ pc = "readFile"
    /\ resolvedBy = "sticky"
    /\ Len(files) = 2
    /\ files[2] = selectedFile
    /\ selected = selectedFile
    /\ promptCount = 1

\* C16: when the sticky file is not among the (non-empty) candidates,
\* selectFile returns the first candidate without prompting and makes it
\* the sticky file.
C16_FallbackToFirst ==
    [][(/\ pc = "findFiles"
        /\ pc' # "findFiles"
        /\ selectedFile # NoFile
        /\ Len(files') > 0
        /\ \A i \in 1..Len(files') : files'[i] # selectedFile)
       => /\ selected' = files'[1]
          /\ promptCount' = promptCount
          /\ pc' # "quickPick"
          /\ pc' = "readFile" => selectedFile' = files'[1]]_vars

\* the sticky file had gone and the first candidate replaced it
C16_Witness ==
    /\ resolvedBy = "fallback"
    /\ pc = "readFile"
    /\ Len(files) > 0
    /\ selected = files[1]
    /\ selectedFile = files[1]
    /\ promptCount = 1

\* C17: without a sticky file selectFile prompts; a cancelled prompt leaves
\* the sticky file unset and ends the iteration before delivery, line
\* submit, watch and cleanup, and the loop stops and resets to Idle.
C17_PromptCancelEndsLoop ==
    /\ [][(/\ pc = "findFiles"
           /\ pc' # "findFiles"
           /\ selectedFile = NoFile
           /\ Len(files') > 0)
          => (pc' = "quickPick" /\ promptCount' = promptCount + 1)]_vars
    /\ [][(pc = "quickPick" /\ pc' # "quickPick" /\ selected' = NoFile)
          => /\ pc' = "idle"
             /\ ~isLooping'
             /\ selectedFile' = NoFile
             /\ lastResult' = "PromptCancelled"
             /\ visited' = visited]_vars
    /\ [](lastResult = "PromptCancelled" =>
            /\ pc = "idle"
            /\ ~isLooping
            /\ selectedFile = NoFile
            /\ visited = {"findFiles", "quickPick"}
            /\ enterTried = {}
            /\ fetchCount = 0
            /\ cleanupCount = 0)

\* the prompt of the first iteration was cancelled and the loop ended
C17_Witness ==
    /\ lastResult = "PromptCancelled"
    /\ exitReason = "PromptCancelled"
    /\ promptCount = 1
    /\ reportedCount = 1
    /\ pc = "idle"

\* C18: zero candidates end the iteration at once: no prompt, no later
\* step, an error message is shown, and the loop ends in Idle.
C18_NoCandidatesFails ==
    /\ [][(pc = "findFiles" /\ pc' # "findFiles" /\ Len(files') = 0)
          => /\ pc' = "idle"
             /\ ~isLooping'
             /\ lastResult' = "NoCandidates"
             /\ errorShown'
             /\ promptCount' = promptCount
             /\ visited' = {"findFiles"}]_vars
    /\ [](lastResult = "NoCandidates" =>
            /\ pc = "idle"
            /\ ~isLooping
            /\ errorShown
            /\ visited = {"findFiles"}
            /\ enterTried = {}
            /\ fetchCount = 0
            /\ cleanupCount = 0)

\* the second iteration found no candidates
C18_Witness ==
    /\ lastResult = "NoCandidates"
    /\ exitReason = "NoCandidates"
    /\ files = <<>>
    /\ reportedCount = 2
    /\ errorShown
    /\ pc = "idle"

\* C19: an error raised by a delivery step (content read, focus, publish,
\* processing trigger, paste) ends the iteration there: no later step has
\* run, the step is not run again, an error message is shown and the loop
\* is stopped.
C19_StepErrorShortCircuits ==
    /\ [][(raisedAt = "none"
           /\ raisedAt' \in {"readFile", "focus", "copy", "composer", "paste"})
          => /\ pc = raisedAt'
             /\ pc' = "idle"
             /\ visited' = visited]_vars
    /\ [](raisedAt \in {"readFile", "focus", "copy", "composer", "paste"} =>
            LET order == <<"readFile", "focus", "copy", "composer", "paste">> IN
            /\ pc = "idle"
            /\ ~isLooping
            /\ lastResult = "Failed"
            /\ errorShown
            /\ \A i, j \in 1..5 :
                 (raisedAt = order[i] /\ j > i) => order[j] \notin visited
            /\ visited \cap ({"enterDelay", "enter1", "enter2", "enter3"}
                             \cup WatchPcs) = {}
            /\ enterTried = {}
            /\ fetchCount = 0
            /\ cleanupCount = 0)

\* the processing trigger raised and the loop ended as failed
C19_Witness ==
    /\ raisedAt = "composer"
    /\ exitReason = "Failed"
    /\ errorShown
    /\ "copy" \in visited
    /\ pc = "idle"

\* C20: a poll that returns null or the baseline is "no change this tick":
\* the watcher goes back to sleeping and polls again (unless the loop was
\* ended), so that a later divergent fingerprint is still detected.
C20_PollingContinues ==
    [][(/\ pc = "fetch"
        /\ pc' # "fetch"
        /\ ~hasCommitOccurred(initialHead, getCurrentGitHead))
       => pc' = "sleep"]_vars

\* C21: inside executeWorkflowIteration, when the cancellation flag is true
\* at a checkpoint (the boundaries between selection, content read,
\* focus/copy, composer/paste, line submit and the commit watch), no later
\* step of that iteration is entered: the step that reaches the checkpoint
\* ends the iteration with a result other than Completed and without
\* fetching a baseline, polling or starting the cleanup.
C21_CheckpointStopsIteration ==
    [][LET phase(p) ==
               IF p \in {"findFiles", "quickPick"} THEN 1
               ELSE IF p = "readFile" THEN 2
               ELSE IF p \in {"focus", "copy"} THEN 3
               ELSE IF p \in {"composer", "paste"} THEN 4
               ELSE IF p \in {"enterDelay", "enter1", "enter2", "enter3"} THEN 5
               ELSE IF p \in WatchPcs THEN 6
               ELSE 0
       IN  (/\ shouldStop
            /\ phase(pc) \in 1..5
            /\ phase(pc') # phase(pc))
           => /\ pc' = "idle"
              /\ lastResult' \in {"Cancelled", "Failed", "NoCandidates",
                                  "PromptCancelled"}
              /\ visited' = visited
              /\ activeIters' = 0
              /\ initialHead' = initialHead
              /\ fetchCount' = fetchCount
              /\ cleanupCount' = cleanupCount]_vars

\* stop arrived while the paste was in flight: the checkpoint after it ended
\* the iteration before the line submit
C21_Witness ==
    /\ stopAt = "paste"
    /\ pc = "idle"
    /\ lastResult = "Cancelled"
    /\ "enterDelay" \notin visited
    /\ enterTried = {}
    /\ cleanupCount = 0

\* C22: when all three mechanisms of simulateEnterKey raise, the function
\* still returns normally: the last raise is only logged, no error message is
\* shown for it, and the iteration goes on to the commit watch (or ends as
\* Cancelled at the checkpoint before it) instead of ending as Failed.
C22_AllRaisedStillWatches ==
    [][(/\ pc = "enter3"
        /\ pc' # "enter3"
        /\ enterRaised' = {1, 2, 3})
       => /\ raisedAt' = "none"
          /\ errorShown' = errorShown
          /\ IF shouldStop
             THEN pc' = "idle" /\ lastResult' = "Cancelled"
             ELSE pc' = "baseline" /\ activeIters' = 1]_vars

\* all three mechanisms raised and the watcher is polling
C22_Witness ==
    /\ enterRaised = {1, 2, 3}
    /\ pc = "sleep"
    /\ raisedAt = "none"
    /\ ~errorShown
    /\ activeIters = 1

\* C23: the cleanup action is started only from the elapsed settle delay of
\* an iteration whose poll returned a fingerprint that is not null and
\* differs from the baseline; and an iteration returns Completed (true, the
\* only result after which the loop goes on) exactly when the cleanup action
\* was started and both of its keystrokes completed without raising.
C23_CleanupOnlyAfterCommit ==
    [][/\ (cleanupCount' > cleanupCount)
          => /\ pc = "settle"
             /\ {"fetch", "settle"} \subseteq visited
             /\ fetchCount = 1
             /\ lastFetch # NULL
             /\ lastFetch # initialHead
       /\ (activeIters = 1 /\ activeIters' = 0)
          => ((lastResult' = "Completed")
              <=> (pc = "cmdW2" /\ cleanupCount = 1 /\ raisedAt' = "none"))
       /\ (pc # "interDelay" /\ pc' = "interDelay")
          => lastResult' = "Completed"]_vars

\* an iteration completed after a commit was polled and the cleanup ran
C23_Witness ==
    /\ pc = "interDelay"
    /\ lastResult = "Completed"
    /\ cleanupCount = 1
    /\ lastFetch # NULL
    /\ lastFetch # initialHead
    /\ {"settle", "cmdW1", "cmdW2"} \subseteq visited

\* C24: a null fingerprint returned by the watcher's poll is never treated as
\* a detected commit, whatever the baseline: while the last poll of the
\* iteration is null, the iteration has not entered the settle delay, has not
\* started the cleanup action and has not returned (so not as Completed).
C24_NullPollIsNoCommit ==
    (fetchCount >= 1 /\ lastFetch = NULL)
        => /\ pc \notin {"settle", "cmdW1", "cmdW2", "interDelay"}
           /\ visited \cap {"settle", "cmdW1", "cmdW2"} = {}
           /\ cleanupCount = 0
           /\ activeIters = 1

\* the poll returned null against a baseline that differs from the
\* repository's HEAD
C24_Witness ==
    /\ fetchCount = 1
    /\ lastFetch = NULL
    /\ initialHead # NULL
    /\ head # initialHead
    /\ pc = "unresolved"

\* C25: when the baseline fingerprint is null as the watch step begins, the
\* iteration returns a result other than Completed without entering the
\* polling sleep, without a poll and without the cleanup action; nothing is
\* raised and no error message is shown, and the loop exits and resets to
\* idle.
C25_NullBaselineStopsLoop ==
    /\ [][(pc = "baseline" /\ pc' # "baseline" /\ getCurrentGitHead = NULL)
          => /\ pc' = "idle"
             /\ lastResult' = "NoBaseline"
             /\ visited' = visited
             /\ raisedAt' = "none"
             /\ errorShown' = errorShown
             /\ ~isLooping' /\ ~shouldStop'
             /\ selectedFile' = NoFile
             /\ currentIterationCount' = 0
             /\ reportedCount' = iterationCount]_vars
    /\ []((initialHead = NULL /\ "baseline" \in visited)
          => /\ pc \in {"baseline", "idle"}
             /\ visited \cap (WatchPcs \ {"baseline"}) = {}
             /\ fetchCount = 0
             /\ cleanupCount = 0)

\* the watch step found no baseline and the loop is back at idle
C25_Witness ==
    /\ lastResult = "NoBaseline"
    /\ exitReason = "NoBaseline"
    /\ pc = "idle"
    /\ "baseline" \in visited
    /\ "sleep" \notin visited
    /\ ~isLooping
    /\ ~errorShown

\* C26: within one session the iteration count starts at 0, is raised by
\* exactly one by each step that enters an iteration body and never goes
\* down while the loop is running; while an iteration body is executing the
\* count is at least 1, equals the loop's local count of bodies entered, and
\* is the count the status bar shows.
C26_CountTracksIterations ==
    /\ []((activeIters = 1)
          => /\ currentIterationCount >= 1
             /\ currentIterationCount = iterationCount
             /\ statusBar = [shown |-> TRUE, iteration |-> iterationCount])
    /\ [][/\ (~isLooping /\ isLooping')
             => (currentIterationCount' = 0 /\ iterationCount' = 0)
          /\ (isLooping /\ isLooping')
             => currentIterationCount' >= currentIterationCount
          /\ (activeIters' > activeIters)
             => /\ currentIterationCount' = currentIterationCount + 1
                /\ iterationCount' = iterationCount + 1
          /\ (isLooping /\ isLooping' /\ activeIters' <= activeIters)
             => currentIterationCount' = currentIterationCount]_vars

\* the third iteration of a session is executing and shown as such
C26_Witness ==
    /\ activeIters = 1
    /\ iterationCount = 3
    /\ currentIterationCount = 3
    /\ statusBar = [shown |-> TRUE, iteration |-> 3]
    /\ pc = "paste"

\* C27: every change of the running flag or of the iteration count is
\* followed by updateStatusBar before the loop suspends again, so at every
\* suspension point the status bar reflects the current state: it is shown
\* exactly while the loop is running, and while shown its text carries the
\* current iteration count (a hidden bar renders no count).
C27_StatusBarCurrent ==
    AtSuspension
        => /\ statusBar.shown = isLooping
           /\ isLooping => statusBar.iteration = currentIterationCount
           /\ ~isLooping => currentIterationCount = 0

\* the loop is suspended in its second iteration and the bar shows it
C27_Witness ==
    /\ pc = "findFiles"
    /\ isLooping
    /\ currentIterationCount = 2
    /\ statusBar = [shown |-> TRUE, iteration |-> 2]

\* C28: the cancellation flag changes only in two ways: an accepted stop()
\* sets it while the loop is suspended and running, and the exit reset clears
\* it as the loop goes idle (loop start writes false over false).  No step of
\* the iteration, the watcher, the selection or the delivery chain changes
\* it, so after an accepted stop() the flag is true for as long as that loop
\* is running.
C28_FlagWrittenByControllerOnly ==
    /\ [][(shouldStop' # shouldStop)
          => \/ /\ shouldStop'
                /\ isLooping /\ isLooping'
                /\ pc' = pc /\ pc \in Awaits
                /\ stopAt' = pc
             \/ /\ ~shouldStop'
                /\ isLooping /\ ~isLooping'
                /\ pc # "idle" /\ pc' = "idle"]_vars
    /\ []((isLooping /\ stopAt # "none") => shouldStop)

\* stop arrived during the focus step and the flag is still set while the
\* next step, which no checkpoint precedes, is in flight
C28_Witness ==
    /\ stopAt = "focus"
    /\ pc = "copy"
    /\ shouldStop
    /\ isLooping

\* C29: the sticky file survives iteration boundaries but not loop
\* boundaries.  Within one session the quick pick is shown at most once, in
\* the first iteration, and every later iteration starts with the sticky file
\* set and resolves without a prompt; a new session starts with no sticky
\* file, whatever the previous session had chosen, and its first selection
\* prompts again.
C29_StickyPerSession ==
    /\ [](/\ promptCount <= 1
          /\ resolvedBy = "prompt" => (iterationCount = 1 /\ promptCount = 1)
          /\ (iterationCount = 1 /\ resolvedBy # "none") => resolvedBy = "prompt"
          /\ iterationCount >= 2 => promptCount = 1
          /\ (iterationCount >= 2 /\ activeIters = 1) => selectedFile # NoFile
          /\ (pc = "loopHead" /\ iterationCount = 0) => selectedFile = NoFile
          /\ ~isLooping => selectedFile = NoFile)
    /\ [][(promptCount' > promptCount)
          => /\ promptCount = 0
             /\ iterationCount = 1
             /\ selectedFile = NoFile]_vars

\* the previous session had resolved a file, and the first iteration of the
\* new session is showing the quick pick again
C29_Witness ==
    /\ prevSticky
    /\ pc = "quickPick"
    /\ iterationCount = 1
    /\ promptCount = 1
    /\ selectedFile = NoFile

\* C30: a stop() accepted while the watcher is in a sleep sub-increment is
\* observed when that sub-increment ends: the next step of the sleep loop
\* returns the cancelled result and the loop exits, and no fingerprint is
\* fetched (and nothing else of the watcher runs) after the request.
C30_StopSeenAtSubIncrement ==
    /\ [][(pc = "sleep" /\ shouldStop /\ watchClock' # watchClock)
          => /\ pc' = "idle"
             /\ lastResult' = "Cancelled"
             /\ exitReason' = "Cancelled"
             /\ fetchCount' = fetchCount
             /\ visited' = visited]_vars
    /\ []((stopAt = "sleep")
          => /\ pc \in {"sleep", "idle"}
             /\ "fetch" \notin visited
             /\ fetchCount = 0
             /\ cleanupCount = 0)

\* stop arrived during a later sub-increment, before the poll interval had
\* elapsed, and the loop ended without a fetch
C30_Witness ==
    /\ stopAt = "sleep"
    /\ pc = "idle"
    /\ exitReason = "Cancelled"
    /\ fetchCount = 0
    /\ watchClock > 2 * SleepMs
    /\ watchClock <= pollInterval

\* C31: the cancellation flag is true only while the loop is running.  A
\* stop() issued while idle changes nothing of the program's state, so the
\* loop started after it finds the flag false at its first while test and
\* enters its first iteration.
C31_StopWhileIdleIsNoOp ==
    /\ [](shouldStop => isLooping)
    /\ [][(~isLooping /\ pc' = pc)
          => UNCHANGED <<ctl, loc>>]_vars
    /\ [][(pc = "loopHead" /\ idleStop /\ pc' # pc)
          => /\ pc' = "findFiles"
             /\ iterationCount' = 1
             /\ isLooping']_vars

\* stop() was issued while idle, and the loop started afterwards is at its
\* first while test with the flag false
C31_Witness ==
    /\ idleStop
    /\ pc = "loopHead"
    /\ isLooping
    /\ ~shouldStop
    /\ iterationCount = 0

C33_StopBetweenIterations ==
    /\ []((stopAt = "interDelay")
          => /\ pc \in {"interDelay", "loopHead", "idle"}
             /\ activeIters = 0
             /\ lastResult = "Completed"
             /\ iterationCount = completedCount
             /\ pc = "idle" => /\ exitReason = "Cancelled"
                               /\ reportedCount = completedCount
                               /\ ~isLooping)
    /\ [][(stopAt = "interDelay" /\ stopAt' = "interDelay")
          => /\ iterationCount' = iterationCount
             /\ visited' = visited
             /\ cleanupCount' = cleanupCount
             /\ completedCount' = completedCount]_vars

\* stop arrived in the delay after the second Completed iteration and the
\* loop reported two iterations
C33_Witness ==
    /\ stopAt = "interDelay"
    /\ pc = "idle"
    /\ exitReason = "Cancelled"
    /\ completedCount = 2
    /\ reportedCount = 2

\* C34: when a keystroke of the cleanup action raises (a commit was detected
\* and the settle delay had elapsed), the iteration is not Completed: the
\* catch block of executeWorkflowIteration shows the error and returns false,
\* no further iteration is started, and the loop exits through the reset to
\* idle.
C34_CleanupErrorEndsLoop ==
    /\ [][(pc \in {"cmdW1", "cmdW2"} /\ raisedAt' # raisedAt)
          => /\ raisedAt' = pc
             /\ cleanupCount = 1
             /\ lastResult' = "Failed"
             /\ completedCount' = completedCount
             /\ errorShown'
             /\ pc' = "idle"
             /\ ~isLooping' /\ ~shouldStop'
             /\ selectedFile' = NoFile
             /\ iterationCount' = iterationCount
             /\ reportedCount' = iterationCount]_vars
    /\ []((raisedAt \in {"cmdW1", "cmdW2"})
          => /\ pc = "idle"
             /\ lastResult = "Failed"
             /\ completedCount = iterationCount - 1)

\* the second keystroke of the cleanup raised after a detected commit
C34_Witness ==
    /\ raisedAt = "cmdW2"
    /\ pc = "idle"
    /\ exitReason = "Failed"
    /\ errorShown
    /\ cleanupCount = 1
    /\ lastFetch # initialHead
    /\ "settle" \in visited

\* C35: in every iteration the baseline is the repository's HEAD read after
\* the line submit has finished and before the first sleep and poll of the
\* watcher; a commit already in HEAD when the baseline is captured is part of
\* the baseline, so the fingerprint the iteration detects as a commit is
\* always one that landed after the capture.
C35_BaselineAfterSubmit ==
    /\ [][/\ (pc = "baseline" /\ pc' = "sleep")
             => /\ initialHead' = head
                /\ enterTried # {}
                /\ {"enterDelay", "enter1"} \subseteq visited
                /\ visited \cap (WatchPcs \ {"baseline"}) = {}
                /\ fetchCount = 0
          /\ (isLooping /\ initialHead' # initialHead) => pc = "baseline"]_vars
    /\ []((visited \cap {"settle", "cmdW1", "cmdW2"} # {})
          => /\ initialHead # NULL
             /\ lastFetch > initialHead)

\* a commit landed before the baseline of the first iteration was captured,
\* and the poll that returned it did not detect a commit
C35_Witness ==
    /\ prevExit = "none"
    /\ iterationCount = 1
    /\ initialHead = 1
    /\ lastFetch = 1
    /\ fetchCount = 1
    /\ pc = "unresolved"

====
